---- MODULE Spec2Model ----
(***************************************************************************)
(* Model of the tick-replay simulator (simulator.py) and of its straddle   *)
(* strategy (Strategy.py).                                                  *)
(*                                                                          *)
(* Numbers.  Prices are integers.  Quantities are counted in tenths (the   *)
(* lot 0.1 is 1), executed prices in 1/10000 of a price unit (slippage is  *)
(* 1/10000), money in 1/100000 of a price unit, so every product the code  *)
(* forms is an exact integer here.  Floating-point rounding is not         *)
(* modelled.                                                                *)
(*                                                                          *)
(* Text.  A symbol is the sequence of its characters, so the substring     *)
(* test, the regular expression, the f-string and the string sort of       *)
(* Strategy.py are computed on characters as the code computes them.       *)
(***************************************************************************)
EXTENDS Integers, Sequences, FiniteSets, TLC

\* ------------------------------------------------------------------ bounds
MaxTicks == 3

MaxApiOrders == 1

MaxApiTicks == 2

\* ------------------------------------------------------- program constants
SlipNum == 1

SlipDen == 10000

QtyDen == 10

LotQty == 1

StrikeStep == 1000

EntryHour == 13

EntryMinute == 0

PnlLimit == 500

MoveNum == 1

MoveDen == 100

MoneyScale == SlipDen * QtyDen

NoPrice == -1

NoSymbol == << >>

\* ------------------------------------------------------------------- text
DigitChars == <<"0", "1", "2", "3", "4", "5", "6", "7", "8", "9">>

IsDigit(c) == \E d \in 1..10 : DigitChars[d] = c

DigitVal(c) == (CHOOSE d \in 1..10 : DigitChars[d] = c) - 1

\* str(n) of a non-negative int, as the f-string inserts it
RECURSIVE IntToStr(_)
IntToStr(n) ==
    IF n < 10 THEN <<DigitChars[n + 1]>>
    ELSE IntToStr(n \div 10) \o <<DigitChars[(n % 10) + 1]>>

\* sub in s  (Python substring test)
Contains(s, sub) ==
    \E p \in 1..(Len(s) - Len(sub) + 1) : SubSeq(s, p, p + Len(sub) - 1) = sub

BTCUSDT == <<"B", "T", "C", "U", "S", "D", "T">>

CallPrefix == <<"C", "-", "B", "T", "C", "-">>

PutPrefix == <<"P", "-", "B", "T", "C", "-">>

\* last index of the maximal run of digits of s starting at k (k-1: none)
RECURSIVE DigitRunEnd(_, _)
DigitRunEnd(s, k) ==
    IF k <= Len(s) /\ IsDigit(s[k]) THEN DigitRunEnd(s, k + 1) ELSE k - 1

\* the pattern C-BTC-\d+-(\d+) matches s at position p
MatchAt(s, p) ==
    LET a  == p + Len(CallPrefix)
        e1 == DigitRunEnd(s, a)
    IN  /\ p + Len(CallPrefix) - 1 <= Len(s)
        /\ SubSeq(s, p, p + Len(CallPrefix) - 1) = CallPrefix
        /\ e1 >= a
        /\ e1 + 1 <= Len(s)
        /\ s[e1 + 1] = "-"
        /\ DigitRunEnd(s, e1 + 2) >= e1 + 2

HasMatch(s) == \E p \in 1..Len(s) : MatchAt(s, p)

\* re.search(...).group(1): the expiry token of the leftmost match
MatchGroup(s) ==
    LET p  == CHOOSE q \in 1..Len(s) :
                  MatchAt(s, q) /\ \A r \in 1..(q - 1) : ~MatchAt(s, r)
        e1 == DigitRunEnd(s, p + Len(CallPrefix))
    IN  SubSeq(s, e1 + 2, DigitRunEnd(s, e1 + 2))

\* a < b in Python's string order, for strings of digits
RECURSIVE StrLess(_, _)
StrLess(a, b) ==
    IF a = << >> THEN b # << >>
    ELSE IF b = << >> THEN FALSE
    ELSE IF a[1] = b[1] THEN StrLess(Tail(a), Tail(b))
    ELSE DigitVal(a[1]) < DigitVal(b[1])

\* sorted(expiries)[0]
FirstSorted(expiries) ==
    CHOOSE e \in expiries : \A f \in expiries : f = e \/ StrLess(e, f)

\* f"C-BTC-{atm_strike}-{expiry}"
FmtCall(atm_strike, expiry) == CallPrefix \o IntToStr(atm_strike) \o <<"-">> \o expiry

FmtPut(atm_strike, expiry) == PutPrefix \o IntToStr(atm_strike) \o <<"-">> \o expiry

\* ------------------------------------------------------------ dictionaries
EmptyDict == [k \in {} |-> 0]

Get(d, k, default) == IF k \in DOMAIN d THEN d[k] ELSE default

Put(d, k, v) == [x \in (DOMAIN d) \cup {k} |-> IF x = k THEN v ELSE d[x]]

SeqToSet(s) == {s[k] : k \in 1..Len(s)}

\* ----------------------------------------------------------------- inputs
Expiry24 == <<"2", "4">>

SymFut == BTCUSDT

SymPerp == BTCUSDT \o <<"-", "P", "E", "R", "P">>

SymCall(k) == FmtCall(k, Expiry24)

SymPut(k) == FmtPut(k, Expiry24)

UStd == <<SymFut, SymCall(2000), SymPut(2000)>>

UNoCall == <<SymFut, SymPut(2000)>>

UNoPut == <<SymFut, SymCall(2000)>>

UZero == <<SymFut, SymCall(0), SymPut(0)>>

UPerp == <<SymFut, SymPerp, SymCall(2000), SymPut(2000)>>

\* two expiries whose tokens differ in length
UTwoExp == <<SymFut, FmtCall(2000, <<"9">>), FmtPut(2000, <<"9">>),
             FmtCall(2000, <<"1", "0">>), FmtPut(2000, <<"1", "0">>)>>

\* the values config.symbols takes in the model
Universes == {UStd, UNoCall, UNoPut, UZero, UPerp, UTwoExp}

\* the symbols whose data files exist (os.path.exists): a symbol without a
\* file contributes no row
WithFile(syms) ==
    IF syms = UPerp THEN {SymFut, SymPerp}
    ELSE IF syms = UZero THEN {SymFut}
    ELSE IF syms = UTwoExp THEN {SymFut}
    ELSE SeqToSet(syms)

\* 12:59:59, 13:00:00 and 14:00:00 of the first day
Timestamps == {46799, 46800, 50400}

FutPrices == {0, 2000, 2021}

OptPrices == {0, 3000}

PricesOf(sym) == IF Contains(sym, BTCUSDT) THEN FutPrices ELSE OptPrices

\* the rows the files of a universe can hold
TickSet(syms) ==
    UNION { { [timestamp |-> t, Symbol |-> sym, close |-> c] :
                t \in Timestamps, c \in PricesOf(sym) } : sym \in WithFile(syms) }

RawFeeds(syms, maxLen) == UNION { [1..n -> TickSet(syms)] : n \in 0..maxLen }

\* ------------------------------------------------------------- simulator.py
\* DataFrame.sort_values(by="timestamp"): rows in timestamp order, rows of
\* equal timestamp in the order of the concatenated frames
RECURSIVE InsertByTimestamp(_, _)
InsertByTimestamp(sorted, r) ==
    IF sorted = << >> THEN <<r>>
    ELSE IF sorted[Len(sorted)].timestamp <= r.timestamp THEN Append(sorted, r)
    ELSE Append(InsertByTimestamp(SubSeq(sorted, 1, Len(sorted) - 1), r),
                sorted[Len(sorted)])

RECURSIVE SortByTimestamp(_)
SortByTimestamp(rows) ==
    IF rows = << >> THEN << >>
    ELSE InsertByTimestamp(SortByTimestamp(SubSeq(rows, 1, Len(rows) - 1)),
                           rows[Len(rows)])

\* datetime.fromtimestamp(time).hour / .minute (local zone taken as UTC)
HourOf(time) == (time \div 3600) % 24

MinuteOf(time) == (time \div 60) % 60

\* mutant of TradePrice: the slippage is applied in the trader's favour
TradePrice_Favourable(side, price) ==
    IF side = "buy" THEN price * (SlipDen - SlipNum)
    ELSE price * (SlipDen + SlipNum)

\* price * (1 + slippage) for a buy, price * (1 - slippage) for a sell,
\* in units of 1/SlipDen
TradePrice(side, price) ==
    IF side = "buy" THEN price * (SlipDen + SlipNum)
    ELSE price * (SlipDen - SlipNum)

\* mutant of onTradeConfirmation: a buy is added like a sell
onTradeConfirmation_BuyAdds(oldPnl, symbol, side, quantity, price) ==
    LET value == quantity * price
    IN  oldPnl + value

\* Strategy.onTradeConfirmation: the new value of Strategy.pnl
onTradeConfirmation(oldPnl, symbol, side, quantity, price) ==
    LET value == quantity * price
    IN  IF side = "buy" THEN oldPnl - value ELSE oldPnl + value

\* mutant of onOrder: the strategy is notified twice of the same fill
onOrder_NotifiesTwice(acc, symbol, side, quantity, price) ==
    LET trade_price == TradePrice(side, price)
        booked ==
            IF side = "buy"
            THEN [acc EXCEPT
                    !.currQuantity = Put(@, symbol, Get(@, symbol, 0) + quantity),
                    !.buyValue = Put(@, symbol, Get(@, symbol, 0) + trade_price * quantity)]
            ELSE [acc EXCEPT
                    !.currQuantity = Put(@, symbol, Get(@, symbol, 0) - quantity),
                    !.sellValue = Put(@, symbol, Get(@, symbol, 0) + trade_price * quantity)]
    IN  [booked EXCEPT
            !.pnl = onTradeConfirmation(
                        onTradeConfirmation(@, symbol, side, quantity, trade_price),
                        symbol, side, quantity, trade_price),
            !.orders = Append(@, [symbol |-> symbol, side |-> side,
                                  quantity |-> quantity, price |-> price]),
            !.fills = Append(@, [symbol |-> symbol, side |-> side,
                                 quantity |-> quantity, price |-> price,
                                 trade_price |-> trade_price])]

\* mutant of onOrder: a sell adds the quantity instead of subtracting it
onOrder_SellAdds(acc, symbol, side, quantity, price) ==
    LET trade_price == TradePrice(side, price)
        booked ==
            IF side = "buy"
            THEN [acc EXCEPT
                    !.currQuantity = Put(@, symbol, Get(@, symbol, 0) + quantity),
                    !.buyValue = Put(@, symbol, Get(@, symbol, 0) + trade_price * quantity)]
            ELSE [acc EXCEPT
                    !.currQuantity = Put(@, symbol, Get(@, symbol, 0) + quantity),
                    !.sellValue = Put(@, symbol, Get(@, symbol, 0) + trade_price * quantity)]
    IN  [booked EXCEPT
            !.pnl = onTradeConfirmation(@, symbol, side, quantity, trade_price),
            !.orders = Append(@, [symbol |-> symbol, side |-> side,
                                  quantity |-> quantity, price |-> price]),
            !.fills = Append(@, [symbol |-> symbol, side |-> side,
                                 quantity |-> quantity, price |-> price,
                                 trade_price |-> trade_price])]

\* Simulator.onOrder on the accounts acc = [buyValue, sellValue,
\* currQuantity, pnl, orders, fills]; orders and fills record the calls
onOrder(acc, symbol, side, quantity, price) ==
    LET trade_price == TradePrice(side, price)
        booked ==
            IF side = "buy"
            THEN [acc EXCEPT
                    !.currQuantity = Put(@, symbol, Get(@, symbol, 0) + quantity),
                    !.buyValue = Put(@, symbol, Get(@, symbol, 0) + trade_price * quantity)]
            ELSE [acc EXCEPT
                    !.currQuantity = Put(@, symbol, Get(@, symbol, 0) - quantity),
                    !.sellValue = Put(@, symbol, Get(@, symbol, 0) + trade_price * quantity)]
    IN  [booked EXCEPT
            !.pnl = onTradeConfirmation(@, symbol, side, quantity, trade_price),
            !.orders = Append(@, [symbol |-> symbol, side |-> side,
                                  quantity |-> quantity, price |-> price]),
            !.fills = Append(@, [symbol |-> symbol, side |-> side,
                                 quantity |-> quantity, price |-> price,
                                 trade_price |-> trade_price])]

\* mutant of SymbolPnL: a symbol without a price is skipped
SymbolPnL_SkipUnpriced(bv, sv, cq, cp, sym) ==
    IF sym \in DOMAIN cp
    THEN Get(sv, sym, 0) - Get(bv, sym, 0) + Get(cq, sym, 0) * cp[sym] * SlipDen
    ELSE 0

\* sell - buy + qty * last_price of one symbol, in money units
SymbolPnL(bv, sv, cq, cp, sym) ==
    Get(sv, sym, 0) - Get(bv, sym, 0)
        + Get(cq, sym, 0) * Get(cp, sym, 0) * SlipDen

\* the loop over config.symbols that adds up total_pnl
RECURSIVE TotalPnL(_, _, _, _, _)
TotalPnL(syms, bv, sv, cq, cp) ==
    IF syms = << >> THEN 0
    ELSE TotalPnL(SubSeq(syms, 1, Len(syms) - 1), bv, sv, cq, cp)
            + SymbolPnL(bv, sv, cq, cp, syms[Len(syms)])

\* ---------------------------------------------------------------- Strategy.py
\* round(price / 1000): Python rounds a half to the even neighbour
PyRound(num, den) ==
    LET q == num \div den
        r == num % den
    IN  IF 2 * r < den THEN q
        ELSE IF 2 * r > den THEN q + 1
        ELSE IF q % 2 = 0 THEN q ELSE q + 1

AtmStrike(price) == PyRound(price, StrikeStep) * StrikeStep

\* dt.hour == 13 and dt.minute == 0
IsEntryTime(time) == HourOf(time) = EntryHour /\ MinuteOf(time) = EntryMinute

\* the set of expiry tokens collected from config.symbols
Expiries(syms) == { MatchGroup(sym) : sym \in {x \in SeqToSet(syms) : HasMatch(x)} }

\* mutant of BothListed: only the call is looked up
BothListed_CallOnly(cs, ps, syms) == cs \in SeqToSet(syms)

\* mutant of BothListed: one listed leg is enough
BothListed_Either(cs, ps, syms) == cs \in SeqToSet(syms) \/ ps \in SeqToSet(syms)

\* call_strike in config.symbols and put_strike in config.symbols
BothListed(cs, ps, syms) == cs \in SeqToSet(syms) /\ ps \in SeqToSet(syms)

\* reference price of a leg: currentPrice.get(leg, price)
RefPrice(cp, leg, price) == Get(cp, leg, price)

\* mutant of OpenLegs: the put is sold before the call
OpenLegs_PutFirst(acc, cs, ps, cp, price) ==
    onOrder(onOrder(acc, ps, "sell", LotQty, RefPrice(cp, ps, price)),
            cs, "sell", LotQty, RefPrice(cp, cs, price))

\* lines 48-49: the two sell orders of the entry
OpenLegs(acc, cs, ps, cp, price) ==
    onOrder(onOrder(acc, cs, "sell", LotQty, RefPrice(cp, cs, price)),
            ps, "sell", LotQty, RefPrice(cp, ps, price))

\* mutant of CloseLegs: the call is bought back twice, the put never
CloseLegs_CallTwice(acc, cs, ps, cp, price) ==
    onOrder(onOrder(acc, cs, "buy", LotQty, RefPrice(cp, cs, price)),
            cs, "buy", LotQty, RefPrice(cp, cs, price))

\* lines 58-59: the two buy orders of the exit
CloseLegs(acc, cs, ps, cp, price) ==
    onOrder(onOrder(acc, cs, "buy", LotQty, RefPrice(cp, cs, price)),
            ps, "buy", LotQty, RefPrice(cp, ps, price))

\* abs(fut_price - entry_price) / entry_price > 0.01, for entry_price > 0
MovedTooFar(fut_price, entry) ==
    LET diff == IF fut_price >= entry THEN fut_price - entry ELSE entry - fut_price
    IN  MoveDen * diff > MoveNum * entry

\* mutant of ExitCondition: the profit target is not tested
ExitCondition_NoProfit(fut_price, entry, realized) ==
    \/ MovedTooFar(fut_price, entry)
    \/ realized <= -(PnlLimit * MoneyScale)

\* the exit test of line 57, once the division has succeeded
ExitCondition(fut_price, entry, realized) ==
    \/ MovedTooFar(fut_price, entry)
    \/ realized >= PnlLimit * MoneyScale
    \/ realized <= -(PnlLimit * MoneyScale)

\* lines 22-53 on st = [entry_price, call_strike, put_strike, in_position,
\* trigger, returned, raised, acc]; trigger records the symbol of the tick
\* that opened the position, returned the early return of line 38
EntryBlock(st, row, syms, cp) ==
    LET symbol == row.Symbol
        price  == row.close
    IN  IF ~(~st.in_position /\ Contains(symbol, BTCUSDT)) THEN st
        ELSE IF ~IsEntryTime(row.timestamp) THEN st
        ELSE
          LET atm_strike == AtmStrike(price)
              expiries   == Expiries(syms)
              s1         == [st EXCEPT !.entry_price = price]
          IN  IF expiries = {} THEN [s1 EXCEPT !.returned = TRUE]
              ELSE
                LET expiry == FirstSorted(expiries)
                    cs     == FmtCall(atm_strike, expiry)
                    ps     == FmtPut(atm_strike, expiry)
                    s2     == [s1 EXCEPT !.call_strike = cs, !.put_strike = ps]
                IN  IF BothListed(cs, ps, syms)
                    THEN [s2 EXCEPT !.acc = OpenLegs(s2.acc, cs, ps, cp, price),
                                    !.in_position = TRUE,
                                    !.trigger = symbol]
                    ELSE s2

\* lines 55-61; dividing by entry_price = 0 raises ZeroDivisionError
ExitBlock(st, row, cp) ==
    IF ~st.in_position THEN st
    ELSE
      LET fut_price == Get(cp, BTCUSDT, 0)
          price     == row.close
      IN  IF st.entry_price = 0 THEN [st EXCEPT !.raised = TRUE]
          ELSE IF ExitCondition(fut_price, st.entry_price, st.acc.pnl)
          THEN [st EXCEPT !.acc = CloseLegs(st.acc, st.call_strike, st.put_strike,
                                            cp, price),
                          !.in_position = FALSE]
          ELSE st

\* Strategy.onMarketData(row)
onMarketData(st, row, syms, cp) ==
    LET s1 == EntryBlock(st, row, syms, cp)
    IN  IF s1.returned THEN s1 ELSE ExitBlock(s1, row, cp)

\* ------------------------------------------------------------------ state
VARIABLES
    symbols,        \* config.symbols
    df,             \* Simulator.df, the sorted rows
    i,              \* rows of df the loop of startSimulation has finished
    pc,             \* "read", "fetch", "strategy", "record", "print", "done", "crashed"
    currentPrice, buyValue, sellValue, currQuantity, pnl_log,   \* Simulator
    entry_price, call_strike, put_strike, in_position, pnl,     \* Strategy
    total_printed,  \* the total printPnL prints
    orders,         \* onOrder calls made while handling the current row
    fills,          \* every fill since the start of the run
    trigger,        \* symbol of the tick that opened the last position
    apiOrders,      \* onOrder calls made by a caller other than the strategy
    files_found,    \* the files hold at least one data file (data_frames is not empty)
    run,            \* 1 for the first Simulator(), 2 for a second one on the same files
    raw,            \* the concatenated rows of the files, kept for the second run
    first_log,      \* pnl_log of the first run
    first_fills,    \* fills of the first run
    first_pc        \* how the first run ended: "done" or "crashed"

vars == <<symbols, df, i, pc, currentPrice, buyValue, sellValue, currQuantity,
          pnl_log, entry_price, call_strike, put_strike, in_position, pnl,
          total_printed, orders, fills, trigger, apiOrders, files_found,
          run, raw, first_log, first_fills, first_pc>>

\* what a second run keeps of the first
second == <<run, raw, first_log, first_fills, first_pc>>

\* Simulator.__init__ and Strategy.__init__, for each config.symbols
Init ==
    /\ symbols \in Universes
    /\ df = << >>
    /\ i = 0
    /\ pc = "read"
    /\ currentPrice = EmptyDict
    /\ buyValue = EmptyDict
    /\ sellValue = EmptyDict
    /\ currQuantity = EmptyDict
    /\ pnl_log = << >>
    /\ entry_price = NoPrice
    /\ call_strike = NoSymbol
    /\ put_strike = NoSymbol
    /\ in_position = FALSE
    /\ pnl = 0
    /\ total_printed = 0
    /\ orders = << >>
    /\ fills = << >>
    /\ trigger = NoSymbol
    /\ apiOrders = 0
    /\ files_found = FALSE
    /\ run = 1
    /\ raw = << >>
    /\ first_log = << >>
    /\ first_fills = << >>
    /\ first_pc = "read"

\* the accounts as onOrder takes them
Accounts ==
    [buyValue |-> buyValue, sellValue |-> sellValue, currQuantity |-> currQuantity,
     pnl |-> pnl, orders |-> orders, fills |-> fills]

\* Simulator.readData: no file found leaves a DataFrame without columns, and
\* sorting it by "timestamp" raises KeyError
LoadFrom(feeds, found, keep) ==
    /\ pc = "read"
    /\ \/ /\ FALSE \in found
          /\ files_found' = FALSE
          /\ pc' = "crashed"
          /\ df' = << >>
          /\ raw' = raw
       \/ /\ TRUE \in found
          /\ files_found' = TRUE
          /\ \E rows \in feeds :
                /\ df' = SortByTimestamp(rows)
                /\ raw' = IF keep THEN rows ELSE raw
          /\ pc' = "fetch"
    /\ UNCHANGED <<symbols, i, currentPrice, buyValue, sellValue, currQuantity,
                   pnl_log, entry_price, call_strike, put_strike, in_position,
                   pnl, total_printed, orders, fills, trigger, apiOrders,
                   run, first_log, first_fills, first_pc>>

LoadRows(maxLen) == LoadFrom(RawFeeds(symbols, maxLen), BOOLEAN, FALSE)

readData == LoadRows(MaxTicks)

\* mutant of UpdatePrice: the table is rebuilt with the new price only
UpdatePrice_Reset(cp, row) == [x \in {row.Symbol} |-> row.close]

\* the price table after line 34
UpdatePrice(cp, row) == Put(cp, row.Symbol, row.close)

\* startSimulation, lines 31-34: take the next row, store its price
Fetch ==
    /\ pc = "fetch"
    /\ i < Len(df)
    /\ currentPrice' = UpdatePrice(currentPrice, df[i + 1])
    /\ orders' = << >>
    /\ pc' = "strategy"
    /\ UNCHANGED <<symbols, df, i, buyValue, sellValue, currQuantity, pnl_log,
                   entry_price, call_strike, put_strike, in_position, pnl,
                   total_printed, fills, trigger, apiOrders,
                   files_found, second>>

\* startSimulation, line 35: the strategy callback with every order it places
CallStrategy ==
    /\ pc = "strategy"
    /\ LET st0 == [entry_price |-> entry_price, call_strike |-> call_strike,
                   put_strike |-> put_strike, in_position |-> in_position,
                   trigger |-> trigger, returned |-> FALSE, raised |-> FALSE,
                   acc |-> Accounts]
           st1 == onMarketData(st0, df[i + 1], symbols, currentPrice)
       IN  /\ entry_price' = st1.entry_price
           /\ call_strike' = st1.call_strike
           /\ put_strike' = st1.put_strike
           /\ in_position' = st1.in_position
           /\ trigger' = st1.trigger
           /\ buyValue' = st1.acc.buyValue
           /\ sellValue' = st1.acc.sellValue
           /\ currQuantity' = st1.acc.currQuantity
           /\ pnl' = st1.acc.pnl
           /\ orders' = st1.acc.orders
           /\ fills' = st1.acc.fills
           /\ pc' = IF st1.raised THEN "crashed" ELSE "record"
    /\ UNCHANGED <<symbols, df, i, currentPrice, pnl_log, total_printed, apiOrders,
                   files_found, second>>

\* mutant of AppendPnL: the entry is put in front of the series
AppendPnL_Prepend(log, row, total_pnl) == <<<<row.timestamp, total_pnl>>>> \o log

\* pnl_log.append([row["timestamp"], total_pnl])
AppendPnL(log, row, total_pnl) == Append(log, <<row.timestamp, total_pnl>>)

\* startSimulation, lines 36-43: recompute the total and append it
Record ==
    /\ pc = "record"
    /\ pnl_log' = AppendPnL(pnl_log, df[i + 1],
                            TotalPnL(symbols, buyValue, sellValue, currQuantity, currentPrice))
    /\ i' = i + 1
    /\ pc' = "fetch"
    /\ UNCHANGED <<symbols, df, currentPrice, buyValue, sellValue, currQuantity,
                   entry_price, call_strike, put_strike, in_position, pnl,
                   total_printed, orders, fills, trigger, apiOrders,
                   files_found, second>>

\* startSimulation, lines 44-46: the loop is over, the series is saved
Save ==
    /\ pc = "fetch"
    /\ i = Len(df)
    /\ pc' = "print"
    /\ UNCHANGED <<symbols, df, i, currentPrice, buyValue, sellValue, currQuantity,
                   pnl_log, entry_price, call_strike, put_strike, in_position,
                   pnl, total_printed, orders, fills, trigger, apiOrders,
                   files_found, second>>

\* Simulator.printPnL
printPnL ==
    /\ pc = "print"
    /\ total_printed' = TotalPnL(symbols, buyValue, sellValue, currQuantity, currentPrice)
    /\ pc' = "done"
    /\ UNCHANGED <<symbols, df, i, currentPrice, buyValue, sellValue, currQuantity,
                   pnl_log, entry_price, call_strike, put_strike, in_position,
                   pnl, orders, fills, trigger, apiOrders,
                   files_found, second>>

Next == readData \/ Fetch \/ CallStrategy \/ Record \/ Save \/ printPnL

Spec == Init /\ [][Next]_vars

\* ------------------------------------------------- a second caller of onOrder
\* Simulator.onOrder is public: between two rows, while a position is open,
\* a caller other than the strategy (a test that accumulates confirmed
\* fills, as in the profit/loss exit test) places an order.  SpecApi replays
\* short feeds of the standard universe with up to MaxApiOrders such calls.
ApiPrices == {1000, 10000}

ApiOrder ==
    /\ pc = "fetch"
    /\ in_position
    /\ apiOrders < MaxApiOrders
    /\ \E symbol \in SeqToSet(symbols), side \in {"buy", "sell"}, price \in ApiPrices :
          LET a1 == onOrder(Accounts, symbol, side, LotQty, price)
          IN  /\ buyValue' = a1.buyValue
              /\ sellValue' = a1.sellValue
              /\ currQuantity' = a1.currQuantity
              /\ pnl' = a1.pnl
              /\ orders' = a1.orders
              /\ fills' = a1.fills
    /\ apiOrders' = apiOrders + 1
    /\ UNCHANGED <<symbols, df, i, pc, currentPrice, pnl_log, entry_price,
                   call_strike, put_strike, in_position, total_printed, trigger,
                   files_found, second>>

readDataApi == LoadRows(MaxApiTicks)

InitApi == Init /\ symbols = UStd

NextApi ==
    readDataApi \/ Fetch \/ CallStrategy \/ Record \/ Save \/ printPnL \/ ApiOrder

SpecApi == InitApi /\ [][NextApi]_vars

\* ------------------------------------------------------ a second Simulator
\* The script run again on the same files and the same config: a new
\* Simulator with a new Strategy replays the rows the first one read.
MaxTwiceTicks == 2

\* mutant of NewStrategy: pnl and in_position are left as the last run had them
NewStrategy_Stale ==
    [entry_price |-> NoPrice, call_strike |-> NoSymbol, put_strike |-> NoSymbol,
     in_position |-> in_position, pnl |-> pnl]

\* Strategy.__init__: the fields of a new Strategy
NewStrategy ==
    [entry_price |-> NoPrice, call_strike |-> NoSymbol, put_strike |-> NoSymbol,
     in_position |-> FALSE, pnl |-> 0]

\* the first run is over (or has raised); Simulator() is constructed again
NewSimulator ==
    /\ run = 1
    /\ pc \in {"done", "crashed"}
    /\ run' = 2
    /\ first_log' = pnl_log
    /\ first_fills' = fills
    /\ first_pc' = pc
    /\ pc' = "read"
    /\ df' = << >>
    /\ i' = 0
    /\ currentPrice' = EmptyDict
    /\ buyValue' = EmptyDict
    /\ sellValue' = EmptyDict
    /\ currQuantity' = EmptyDict
    /\ pnl_log' = << >>
    /\ entry_price' = NewStrategy.entry_price
    /\ call_strike' = NewStrategy.call_strike
    /\ put_strike' = NewStrategy.put_strike
    /\ in_position' = NewStrategy.in_position
    /\ pnl' = NewStrategy.pnl
    /\ total_printed' = 0
    /\ orders' = << >>
    /\ fills' = << >>
    /\ trigger' = NoSymbol
    /\ UNCHANGED <<symbols, apiOrders, raw, files_found>>

\* readData of the first run, which notes the rows, and of the second, which
\* finds the same files with the same rows
readDataFirst ==
    /\ run = 1
    /\ LoadFrom(RawFeeds(symbols, MaxTwiceTicks), BOOLEAN, TRUE)

readDataAgain ==
    /\ run = 2
    /\ LoadFrom({raw}, {files_found}, FALSE)

NextTwice ==
    \/ readDataFirst
    \/ readDataAgain
    \/ Fetch
    \/ CallStrategy
    \/ Record
    \/ Save
    \/ printPnL
    \/ NewSimulator

SpecTwice == Init /\ [][NextTwice]_vars

\* ================================================================== claims
\* sums over the fills of one symbol
RECURSIVE NetQty(_, _)
NetQty(fs, sym) ==
    IF fs = << >> THEN 0
    ELSE LET f == fs[Len(fs)]
         IN  NetQty(SubSeq(fs, 1, Len(fs) - 1), sym)
               + (IF f.symbol # sym THEN 0
                  ELSE IF f.side = "buy" THEN f.quantity ELSE -f.quantity)

RECURSIVE CashFlow(_, _)
CashFlow(fs, sym) ==
    IF fs = << >> THEN 0
    ELSE LET f == fs[Len(fs)]
         IN  CashFlow(SubSeq(fs, 1, Len(fs) - 1), sym)
               + (IF f.symbol # sym THEN 0
                  ELSE IF f.side = "buy" THEN -(f.trade_price * f.quantity)
                  ELSE f.trade_price * f.quantity)

\* every symbol the run can touch
KnownSymbols ==
    SeqToSet(symbols) \cup DOMAIN currQuantity \cup DOMAIN buyValue
        \cup DOMAIN sellValue \cup DOMAIN currentPrice

\* ---------------------------------------------------------------------- C1
C1_State ==
    /\ Len(pnl_log) = i
    /\ Len(pnl_log) <= Len(df)
    /\ \A k \in 1..Len(pnl_log) : pnl_log[k][1] = df[k].timestamp
    /\ \A k \in 1..Len(pnl_log), l \in 1..Len(pnl_log) :
          k <= l => pnl_log[k][1] <= pnl_log[l][1]
    /\ pc \in {"print", "done"} => Len(pnl_log) = Len(df)

C1_AppendOnly ==
    /\ Len(pnl_log') >= Len(pnl_log)
    /\ SubSeq(pnl_log', 1, Len(pnl_log)) = pnl_log

\* C1: when startSimulation has returned, pnl_log has one entry per row of
\* the feed, the k-th entry carries the timestamp of the k-th row, the
\* timestamps are non-decreasing (readData sorts the feed), and no step ever
\* changes or removes an entry already appended.
C1_PnlSeries == [](C1_State) /\ [][C1_AppendOnly]_vars

C1_Witness ==
    /\ pc = "done"
    /\ Len(pnl_log) = 3
    /\ pnl_log[1][1] < pnl_log[2][1]
    /\ pnl_log[2][1] = pnl_log[3][1]

\* ---------------------------------------------------------------------- C2
C2_State ==
    \A sym \in KnownSymbols : Get(currQuantity, sym, 0) = NetQty(fills, sym)

C2_Monotone ==
    \A sym \in KnownSymbols :
        /\ Get(buyValue', sym, 0) >= Get(buyValue, sym, 0)
        /\ Get(sellValue', sym, 0) >= Get(sellValue, sym, 0)

\* C2: for every symbol currQuantity is the sum of the quantities of its buy
\* fills minus that of its sell fills since the start of the run, and
\* buyValue and sellValue never decrease from one state to the next.
C2_Ledger == [](C2_State) /\ [][C2_Monotone]_vars

C2_Witness ==
    \E sym \in KnownSymbols :
        /\ Get(buyValue, sym, 0) > 0
        /\ Get(sellValue, sym, 0) > 0
        /\ Get(currQuantity, sym, 0) = 0

\* ---------------------------------------------------------------------- C3
\* signed cash flows of the fills of sym plus the signed filled quantity at price p
FillsValue(sym, p) == CashFlow(fills, sym) + NetQty(fills, sym) * p * SlipDen

MarkedValue(sym) == FillsValue(sym, Get(currentPrice, sym, 0))

RECURSIVE SumMarked(_)
SumMarked(S) ==
    IF S = {} THEN 0
    ELSE LET x == CHOOSE y \in S : TRUE IN MarkedValue(x) + SumMarked(S \ {x})

ProbePrices == FutPrices \cup OptPrices \cup ApiPrices

\* C3: the total appended for a row is computed after the fills of that row
\* and is the sum over config.symbols of sell - buy + qty * price, a symbol
\* without a price counting at 0; each term is the signed cash flow of the
\* symbol's fills plus its signed filled quantity at that price, whatever
\* the price.
C3_TotalPnL ==
    /\ (pc = "fetch" /\ i > 0) =>
          pnl_log[i][2] = SumMarked(SeqToSet(symbols))
    /\ pc = "done" => total_printed = SumMarked(SeqToSet(symbols))
    /\ pc = "record" =>
          \A sym \in SeqToSet(symbols), p \in ProbePrices :
              SymbolPnL(buyValue, sellValue, currQuantity,
                        Put(currentPrice, sym, p), sym) = FillsValue(sym, p)

C3_Witness ==
    /\ pc = "fetch"
    /\ i > 0
    /\ Len(orders) = 2
    /\ pnl_log[i][2] # 0
    /\ \E sym \in SeqToSet(symbols) :
          sym \notin DOMAIN currentPrice /\ Get(currQuantity, sym, 0) # 0

\* ------------------------------------------------------------ C4 .. C8 helpers
Row == df[i + 1]

\* the strategy is about to be called for a tick of BTCUSDT at the entry time
FlatAtEntryTick ==
    /\ pc = "strategy"
    /\ ~in_position
    /\ IsEntryTime(Row.timestamp)

DerivedCall == FmtCall(AtmStrike(Row.close), FirstSorted(Expiries(symbols)))

DerivedPut == FmtPut(AtmStrike(Row.close), FirstSorted(Expiries(symbols)))

DerivedListed ==
    /\ Expiries(symbols) # {}
    /\ DerivedCall \in SeqToSet(symbols)
    /\ DerivedPut \in SeqToSet(symbols)

OrderOf(symbol, side, price) ==
    [symbol |-> symbol, side |-> side, quantity |-> LotQty, price |-> price]

LedgerUnchanged ==
    /\ buyValue' = buyValue
    /\ sellValue' = sellValue
    /\ currQuantity' = currQuantity
    /\ fills' = fills

\* ---------------------------------------------------------------------- C4
\* C4: a tick of BTCUSDT at 13:00 that finds the strategy Flat, with the
\* derived call and put in config.symbols, places exactly the two sell
\* orders (lot 0.1, at the leg's last price or else the tick's price),
\* records entry_price = the tick's price and ends InPosition.
C4_EntryEndsInPosition ==
    [][ (FlatAtEntryTick /\ Row.Symbol = BTCUSDT /\ DerivedListed) =>
          /\ orders' = << OrderOf(DerivedCall, "sell",
                                  Get(currentPrice, DerivedCall, Row.close)),
                          OrderOf(DerivedPut, "sell",
                                  Get(currentPrice, DerivedPut, Row.close)) >>
          /\ entry_price' = Row.close
          /\ in_position' ]_vars

\* ---------------------------------------------------------------------- C5
OpenSymbols == {sym \in KnownSymbols : Get(currQuantity, sym, 0) # 0}

\* C5: whenever a row has been recorded, the strategy is InPosition exactly
\* when the recorded call and put are both short one lot, Flat exactly when
\* every currQuantity is zero, and never is exactly one leg open.
C5_BothLegsOrNone ==
    pc \in {"fetch", "print", "done"} =>
        /\ in_position <=> ( /\ Get(currQuantity, call_strike, 0) = -LotQty
                             /\ Get(currQuantity, put_strike, 0) = -LotQty )
        /\ ~in_position <=> OpenSymbols = {}
        /\ in_position => OpenSymbols = {call_strike, put_strike}
        /\ Cardinality(OpenSymbols) # 1

C5_Witness ==
    /\ pc = "fetch"
    /\ i >= 2
    /\ in_position
    /\ Len(fills) = 6
    /\ call_strike # put_strike

\* ---------------------------------------------------------------------- C6
PnlOutOfBand == pnl >= PnlLimit * MoneyScale \/ pnl <= -(PnlLimit * MoneyScale)

TwoBuysOfLegs ==
    /\ Len(orders') = 2
    /\ orders'[1].symbol = call_strike /\ orders'[2].symbol = put_strike
    /\ \A k \in 1..2 : orders'[k].side = "buy" /\ orders'[k].quantity = LotQty

\* C6: a market-data event that finds the strategy InPosition with
\* Strategy.pnl >= 500 or <= -500 places two buy orders, one per open leg
\* with the entry quantity, and leaves the strategy Flat.
C6_PnlExit ==
    [][ (pc = "strategy" /\ in_position /\ PnlOutOfBand) =>
          (TwoBuysOfLegs /\ ~in_position' /\ pc' = "record") ]_vars

OrderValue(o) == TradePrice(o.side, o.price) * o.quantity

\* the exit just made was forced by the profit target alone
C6_Witness ==
    /\ pc = "record"
    /\ ~in_position
    /\ Len(orders) = 2
    /\ orders[1].side = "buy" /\ orders[2].side = "buy"
    /\ ~MovedTooFar(Get(currentPrice, BTCUSDT, 0), entry_price)
    /\ pnl + OrderValue(orders[1]) + OrderValue(orders[2]) >= PnlLimit * MoneyScale
    /\ Row.Symbol # BTCUSDT

\* ---------------------------------------------------------------------- C7
\* C7: a market-data event that finds the strategy InPosition while the
\* latest price of the instrument whose tick opened the position has moved
\* more than 1% from entry_price closes both legs and leaves it Flat.
C7_TriggerMoveExit ==
    [][ (pc = "strategy" /\ in_position /\ entry_price > 0
           /\ MovedTooFar(Get(currentPrice, trigger, 0), entry_price)) =>
          (TwoBuysOfLegs /\ ~in_position') ]_vars

\* ---------------------------------------------------------------------- C8
EntryRefused ==
    /\ FlatAtEntryTick
    /\ Contains(Row.Symbol, BTCUSDT)
    /\ ~DerivedListed

C8_Skip ==
    /\ EntryRefused =>
          /\ orders' = << >>
          /\ LedgerUnchanged
          /\ pnl' = pnl
          /\ ~in_position'
          /\ pc' = "record"
    /\ pc = "record" =>
          /\ Len(pnl_log') = Len(pnl_log) + 1
          /\ i' = i + 1
          /\ pc' = "fetch"

\* C8: an entry attempt that finds no expiry token in config.symbols, or
\* whose derived call or put is not in config.symbols, places no order,
\* leaves the ledger unchanged and the strategy Flat, and the run goes on:
\* the row is recorded and the loop moves to the next row.
C8_RefusedEntry == [][C8_Skip]_vars

\* a refused entry (the call is listed, the put is not) before the last row
C8_Witness ==
    /\ pc = "record"
    /\ i + 1 < Len(df)
    /\ ~in_position
    /\ orders = << >>
    /\ fills = << >>
    /\ IsEntryTime(Row.timestamp)
    /\ Contains(Row.Symbol, BTCUSDT)
    /\ entry_price = Row.close
    /\ call_strike \in SeqToSet(symbols)
    /\ put_strike \notin SeqToSet(symbols)

\* ---------------------------------------------------------------------- C9
SlippageDirection(f) ==
    /\ f.side = "buy" =>
          /\ f.trade_price = f.price * (SlipDen + SlipNum)
          /\ f.trade_price >= f.price * SlipDen
    /\ f.side # "buy" =>
          /\ f.trade_price = f.price * (SlipDen - SlipNum)
          /\ f.trade_price <= f.price * SlipDen

\* C9 as claimed: every fill is executed at price * (1 +- 0.0001), never on
\* the trader's side of the reference price, and at the reference price
\* only if the slippage rate is 0.
C9_EqualOnlyWithoutSlippage ==
    \A k \in 1..Len(fills) :
        /\ SlippageDirection(fills[k])
        /\ fills[k].trade_price = fills[k].price * SlipDen => SlipNum = 0

\* C9 as amended: every fill is executed at price * (1 +- 0.0001), never on
\* the trader's side of the reference price, and at the reference price
\* exactly when the reference price is 0.
C9_Slippage ==
    \A k \in 1..Len(fills) :
        /\ SlippageDirection(fills[k])
        /\ fills[k].trade_price = fills[k].price * SlipDen <=> fills[k].price = 0

C9_Witness ==
    /\ \E k \in 1..Len(fills) : fills[k].side = "buy" /\ fills[k].price > 0
    /\ \E k \in 1..Len(fills) : fills[k].side = "sell" /\ fills[k].price > 0
    /\ \E k \in 1..Len(fills) : fills[k].price = 0

\* --------------------------------------------------------------------- C10
C10_State ==
    pc = "strategy" =>
        /\ Row.Symbol \in DOMAIN currentPrice
        /\ currentPrice[Row.Symbol] = Row.close

C10_Step ==
    /\ DOMAIN currentPrice \subseteq DOMAIN currentPrice'
    /\ currentPrice' # currentPrice => (pc = "fetch" /\ pc' = "strategy")
    /\ (pc = "fetch" /\ pc' = "strategy") =>
          \A sym \in DOMAIN currentPrice :
              sym # Row.Symbol => currentPrice'[sym] = currentPrice[sym]
    /\ pc' = "strategy" => pc = "fetch"

\* C10: when onMarketData is called for a row, currentPrice[row.Symbol] is
\* already row.close and every other entry is as the previous row left it;
\* only the loop of startSimulation writes the table, once per row, and no
\* key is ever removed.
C10_PriceTable == [](C10_State) /\ [][C10_Step]_vars

C10_Witness ==
    /\ pc = "strategy"
    /\ i = 2
    /\ Cardinality(DOMAIN currentPrice) = 2
    /\ Len(fills) = 2
    /\ \E sym \in DOMAIN currentPrice : sym # Row.Symbol /\ currentPrice[sym] # Row.close

\* --------------------------------------------------------------------- C11
NoFileFound == pc # "read" /\ ~files_found

\* C11: when readData finds no data file for any date and symbol, loading
\* and simulating complete without raising, the PnL series is empty and the
\* ledger has no buy, sell or quantity entry.
C11_EmptyFeed ==
    NoFileFound =>
        /\ pc # "crashed"
        /\ pnl_log = << >>
        /\ DOMAIN buyValue = {}
        /\ DOMAIN sellValue = {}
        /\ DOMAIN currQuantity = {}

\* --------------------------------------------------------------------- C13
\* C13: once the rows are loaded, the loop of startSimulation never stops in
\* an error raised inside onMarketData, onOrder or the PnL recomputation,
\* whatever the prices and whatever the universe lists.
C13_NoFatalPath == files_found => pc # "crashed"

\* --------------------------------------------------------------------- C14
\* the fills a step adds
NewFills == SubSeq(fills', Len(fills) + 1, Len(fills'))

\* notional of the fills of one side of one symbol
RECURSIVE Notional(_, _, _)
Notional(fs, sym, side) ==
    IF fs = << >> THEN 0
    ELSE LET f == fs[Len(fs)]
         IN  Notional(SubSeq(fs, 1, Len(fs) - 1), sym, side)
               + (IF f.symbol = sym /\ f.side = side
                  THEN f.trade_price * f.quantity ELSE 0)

\* what the strategy is told: + notional of a sell, - notional of a buy
RECURSIVE Confirmed(_)
Confirmed(fs) ==
    IF fs = << >> THEN 0
    ELSE LET f == fs[Len(fs)]
         IN  Confirmed(SubSeq(fs, 1, Len(fs) - 1))
               + (IF f.side = "buy" THEN -(f.trade_price * f.quantity)
                  ELSE f.trade_price * f.quantity)

FilledSymbols(fs) == {fs[k].symbol : k \in 1..Len(fs)}

C14_Step ==
    fills' # fills =>
        /\ Len(fills') > Len(fills)
        /\ SubSeq(fills', 1, Len(fills)) = fills
        /\ apiOrders' # apiOrders => Len(NewFills) = 1
        \* every call is filled whole, at the price of the slippage rule
        /\ Len(orders') >= Len(NewFills)
        /\ \A k \in 1..Len(NewFills) :
              LET o == orders'[Len(orders') - Len(NewFills) + k]
                  f == NewFills[k]
              IN  /\ f.symbol = o.symbol
                  /\ f.side = o.side
                  /\ f.quantity = o.quantity
                  /\ f.price = o.price
                  /\ f.trade_price = TradePrice(o.side, o.price)
        \* the entries of the filled symbols move by the fills, side by side
        /\ \A sym \in FilledSymbols(NewFills) :
              /\ Get(currQuantity', sym, 0) - Get(currQuantity, sym, 0)
                    = NetQty(NewFills, sym)
              /\ Get(buyValue', sym, 0) - Get(buyValue, sym, 0)
                    = Notional(NewFills, sym, "buy")
              /\ Get(sellValue', sym, 0) - Get(sellValue, sym, 0)
                    = Notional(NewFills, sym, "sell")
              /\ sym \in DOMAIN currQuantity'
        \* a single call leaves the notional of the other side as it was
        /\ Len(NewFills) = 1 =>
              LET f == NewFills[1]
              IN  /\ f.side = "buy" => sellValue' = sellValue
                  /\ f.side = "sell" => buyValue' = buyValue
        \* the entries of every other symbol stay, an absent one stays absent
        /\ \A sym \in (KnownSymbols \cup DOMAIN currQuantity' \cup DOMAIN buyValue'
                         \cup DOMAIN sellValue') \ FilledSymbols(NewFills) :
              /\ sym \in DOMAIN currQuantity' <=> sym \in DOMAIN currQuantity
              /\ sym \in DOMAIN buyValue' <=> sym \in DOMAIN buyValue
              /\ sym \in DOMAIN sellValue' <=> sym \in DOMAIN sellValue
              /\ Get(currQuantity', sym, 0) = Get(currQuantity, sym, 0)
              /\ Get(buyValue', sym, 0) = Get(buyValue, sym, 0)
              /\ Get(sellValue', sym, 0) = Get(sellValue, sym, 0)
        /\ currentPrice' = currentPrice
        /\ pnl_log' = pnl_log
        \* one confirmation per fill
        /\ pnl' - pnl = Confirmed(NewFills)

\* C14: every onOrder call is filled whole and at once; it moves only the
\* ledger entry of its symbol (a buy adds the quantity and trade_price *
\* quantity of buy notional, a sell subtracts the quantity and adds sell
\* notional, the other notional stays), leaves the other symbols, the price
\* table and the PnL series alone, and tells the strategy once, with the
\* executed price.
C14_OrderFrame == [][C14_Step]_vars

C14_Witness ==
    /\ apiOrders = 1
    /\ Len(fills) = 3
    /\ fills[3].side = "buy"
    /\ fills[3].symbol = SymFut
    /\ Get(currQuantity, SymFut, 0) = LotQty
    /\ Get(currQuantity, SymCall(2000), 0) = -LotQty

\* --------------------------------------------------------------------- C15
\* the number a token of digits writes
RECURSIVE TokenValue(_)
TokenValue(s) ==
    IF s = << >> THEN 0
    ELSE 10 * TokenValue(SubSeq(s, 1, Len(s) - 1)) + DigitVal(s[Len(s)])

Dist(a, b) == IF a >= b THEN a - b ELSE b - a

\* the multiples of the strike increment nearest to a price
NearestStrikes(price) ==
    {k \in {m * StrikeStep : m \in 0..((price \div StrikeStep) + 1)} :
        \A m \in 0..((price \div StrikeStep) + 1) :
            Dist(k, price) <= Dist(m * StrikeStep, price)}

\* the expiry tokens of the call identifiers that write the smallest number
EarliestExpiries(syms) ==
    {e \in Expiries(syms) :
        \A f \in Expiries(syms) : TokenValue(e) <= TokenValue(f)}

EntryAttempt ==
    /\ pc = "strategy"
    /\ ~in_position
    /\ Contains(Row.Symbol, BTCUSDT)
    /\ IsEntryTime(Row.timestamp)
    /\ Expiries(symbols) # {}

\* C15: at an entry attempt the strike of the recorded legs is the multiple
\* of 1000 nearest to the tick's price and their expiry is the smallest
\* token of the identifiers matching C-BTC-<strike>-<expiry>, which is also
\* the token writing the smallest number.
C15_NearestStrikeEarliestExpiry ==
    [][EntryAttempt =>
          \E k \in NearestStrikes(Row.close), e \in EarliestExpiries(symbols) :
              /\ \A f \in Expiries(symbols) : e = f \/ StrLess(e, f)
              /\ call_strike' = FmtCall(k, e)
              /\ put_strike' = FmtPut(k, e)]_vars

\* --------------------------------------------------------------------- C16
\* sum over a set of symbols of sellValue - buyValue
RECURSIVE NetCash(_)
NetCash(S) ==
    IF S = {} THEN 0
    ELSE LET sym == CHOOSE x \in S : TRUE
         IN  Get(sellValue, sym, 0) - Get(buyValue, sym, 0) + NetCash(S \ {sym})

C16_State ==
    /\ pnl = NetCash(DOMAIN sellValue \cup DOMAIN buyValue)
    /\ (pc \in {"fetch", "print", "done"} /\ i > 0 /\ ~in_position) =>
          pnl_log[i][2] = pnl

C16_Step == pnl' # pnl => Len(fills') > Len(fills)

\* C16: Strategy.pnl is at all times the sum over the symbols of sellValue -
\* buyValue, it changes only when an order is filled (it is not reset when a
\* position is closed or a new one opened), and after every row that leaves
\* the strategy flat the total appended to pnl_log equals Strategy.pnl.
C16_RealizedPnL == [](C16_State) /\ [][C16_Step]_vars

C16_Witness ==
    /\ pc = "fetch"
    /\ ~in_position
    /\ Len(fills) = 8
    /\ pnl # 0
    /\ pnl_log[i][2] = pnl
    /\ pnl_log[1][2] # pnl

\* --------------------------------------------------------------------- C17
SidesOf(os) == [k \in 1..Len(os) |-> os[k].side]

SymbolsOf(os) == [k \in 1..Len(os) |-> os[k].symbol]

C17_State ==
    /\ \A sym \in KnownSymbols : Get(currQuantity, sym, 0) \in {0, -LotQty}
    /\ Cardinality(OpenSymbols) \in {0, 2}
    /\ OpenSymbols # {} => OpenSymbols = {call_strike, put_strike}

C17_Step ==
    /\ (orders' # orders /\ orders' # << >>) => (pc = "strategy" /\ orders = << >>)
    /\ pc = "strategy" =>
          \/ orders' = << >>
          \/ /\ SidesOf(orders') = <<"sell", "sell">>
             /\ SymbolsOf(orders') = <<call_strike', put_strike'>>
             /\ ~in_position
             /\ in_position'
          \/ /\ SidesOf(orders') = <<"buy", "buy">>
             /\ SymbolsOf(orders') = <<call_strike, put_strike>>
             /\ in_position
             /\ ~in_position'
             /\ OpenSymbols = {call_strike, put_strike}
          \/ /\ SidesOf(orders') = <<"sell", "sell", "buy", "buy">>
             /\ SymbolsOf(orders')
                   = <<call_strike', put_strike', call_strike', put_strike'>>
             /\ ~in_position
             /\ ~in_position'
    /\ pc = "strategy" =>
          /\ call_strike' # << >> => call_strike'[1] = "C" /\ put_strike'[1] = "P"
          /\ \A k \in 1..Len(orders') : orders'[k].quantity = LotQty

\* C17: the orders of one row are nothing, or sell call, sell put, or buy
\* call, buy put, or sell call, sell put, buy call, buy put; the sells are
\* placed only by a flat strategy, the buys only for the two legs that are
\* open; at most one straddle is open and every currQuantity is 0 or -0.1.
C17_OrderPatterns == [](C17_State) /\ [][C17_Step]_vars

C17_Witness ==
    /\ pc = "record"
    /\ SidesOf(orders) = <<"sell", "sell", "buy", "buy">>
    /\ Len(fills) = 8
    /\ OpenSymbols = {}

\* --------------------------------------------------------------------- C18
LedgerKeys == DOMAIN buyValue \cup DOMAIN sellValue \cup DOMAIN currQuantity

C18_State ==
    /\ LedgerKeys \subseteq SeqToSet(symbols)
    /\ FilledSymbols(fills) \subseteq SeqToSet(symbols)
    /\ (pc = "fetch" /\ i > 0) =>
          pnl_log[i][2] = SumMarked(SeqToSet(symbols) \cup FilledSymbols(fills))

C18_Step ==
    (LedgerKeys' # LedgerKeys) =>
        /\ pc = "strategy"
        /\ LedgerKeys' \ LedgerKeys \subseteq {call_strike', put_strike'}
        /\ BothListed(call_strike', put_strike', symbols)

\* C18: every key of buyValue, sellValue and currQuantity, that is every
\* symbol that was ever filled, is in config.symbols (a key appears only
\* when the strategy sells two legs it found listed), so the total summed
\* over config.symbols is the total over all traded symbols.
C18_TradedSymbolsListed == [](C18_State) /\ [][C18_Step]_vars

C18_Witness ==
    /\ pc = "fetch"
    /\ i > 0
    /\ in_position
    /\ LedgerKeys = {SymCall(2000), SymPut(2000)}
    /\ symbols = UPerp
    /\ \E sym \in LedgerKeys : MarkedValue(sym) # 0
    /\ pnl_log[i][2] # 0

\* --------------------------------------------------------------------- C19
PnlInBand == pnl > -(PnlLimit * MoneyScale) /\ pnl < PnlLimit * MoneyScale

\* called in position, the instrument that opened it within 1% of the entry
\* price and the realized PnL inside the band
HeldWithoutExit ==
    /\ pc = "strategy"
    /\ in_position
    /\ ~MovedTooFar(Get(currentPrice, trigger, 0), entry_price)
    /\ PnlInBand

StrategyUnchanged ==
    /\ pnl' = pnl
    /\ entry_price' = entry_price
    /\ call_strike' = call_strike
    /\ put_strike' = put_strike
    /\ in_position' = in_position

C19_Step ==
    /\ HeldWithoutExit => (orders' = << >> /\ LedgerUnchanged /\ StrategyUnchanged)
    /\ (pc = "strategy" /\ orders' = << >>) => LedgerUnchanged

\* C19: a row handled in position while the instrument that triggered the
\* entry is within 1% of entry_price and -500 < pnl < 500 places no order
\* and changes neither the ledger nor pnl, entry_price, call_strike,
\* put_strike and in_position; a row without an order leaves the ledger as
\* it was.
C19_HoldFrame == [][C19_Step]_vars

\* --------------------------------------------------------------------- C12
IsPrefix(a, b) == Len(a) <= Len(b) /\ SubSeq(b, 1, Len(a)) = a

C12_State ==
    run = 2 =>
        /\ IsPrefix(pnl_log, first_log)
        /\ IsPrefix(fills, first_fills)
        /\ pc \in {"fetch", "strategy"} => Len(first_log) >= i
        /\ pc = "record" => Len(first_log) > i
        /\ pc \in {"done", "crashed"} =>
              /\ pc = first_pc
              /\ pnl_log = first_log
              /\ fills = first_fills

====
